---- MODULE Spec2Model ----
(***************************************************************************)
(* SuperMario/agent/network.py: the two Q-network classes,                 *)
(* DeepConvQNetwork and DuelingDeepConvQNetwork.                           *)
(*                                                                         *)
(* One network object is modelled: its attributes (input_dim, output_dim,  *)
(* conv, fc_input_dim, network / value_stream / advantage_stream, device), *)
(* the constructor as the sequence of its statements, and forward.         *)
(*                                                                         *)
(* Tensors are modelled by their shape and by per-sample data.  A torch    *)
(* layer is modelled by its effect on the shape (and the errors it raises  *)
(* for a shape it cannot take); every layer of the file (Conv2d, ReLU,     *)
(* Flatten, Linear) acts on each sample of the batch independently, so the *)
(* values a stack of layers yields for one sample are a function of that   *)
(* sample and of the stack's parameters: Unit below.  Arithmetic is exact  *)
(* (rationals in lowest terms); floating-point rounding is not modelled.   *)
(***************************************************************************)
EXTENDS Integers, Sequences, FiniteSets, TLC

\* ------------------------------------------------------------- bounds
\* Spatial sides tried for input_dim: -1..MaxSide, and TypicalSide.
MaxSide == 36
TypicalSide == 84
\* output_dim ranges over 1..MaxOut, and 6.
MaxOut == 3
\* A batch holds 1..MaxBatch samples, each one of 1..NumSamples.
MaxBatch == 2
NumSamples == 2
\* The random parameter initialisation is one of 1..NumSeeds draws.
NumSeeds == 2

Sides == (-1 .. MaxSide) \cup {TypicalSide}
Chans == {-1, 0, 1, 4}
OutDims == (1 .. MaxOut) \cup {6}
Samples == 1 .. NumSamples
Seeds == 1 .. NumSeeds
Kinds == {"DeepConvQNetwork", "DuelingDeepConvQNetwork"}

\* Tuples of the wrong length handed in as input_dim.
ArityDims == {1, 4, TypicalSide}
WrongArity ==
  {<<>>}
    \cup {<<a>> : a \in ArityDims}
    \cup {<<a, b>> : a \in ArityDims, b \in ArityDims}
    \cup {<<a, b, c, d>> : a \in ArityDims, b \in ArityDims,
                           c \in ArityDims, d \in ArityDims}
InputDims ==
  {<<c, h, w>> : c \in Chans, h \in Sides, w \in Sides} \cup WrongArity

Batches == UNION {[1 .. b -> Samples] : b \in 1 .. MaxBatch}

\* ------------------------------------------------------------- arithmetic
Abs(x) == IF x < 0 THEN -x ELSE x

RECURSIVE GCD(_, _)
GCD(a, b) == IF b = 0 THEN a ELSE GCD(b, a % b)

\* The rational n/d (d > 0) in lowest terms, as <<numerator, denominator>>.
Rat(n, d) ==
  LET g == GCD(Abs(n), d) IN <<n \div g, d \div g>>

RatAdd(p, q) == Rat(p[1] * q[2] + q[1] * p[2], p[2] * q[2])
RatSub(p, q) == Rat(p[1] * q[2] - q[1] * p[2], p[2] * q[2])

RECURSIVE Prod(_)
Prod(s) == IF s = <<>> THEN 1 ELSE Head(s) * Prod(Tail(s))

RECURSIVE RatSum(_)
RatSum(s) == IF s = <<>> THEN Rat(0, 1) ELSE RatAdd(Head(s), RatSum(Tail(s)))

RECURSIVE Concat(_)
Concat(rows) == IF rows = <<>> THEN <<>> ELSE Head(rows) \o Concat(Tail(rows))

\* ------------------------------------------------------------- tensors
\* A shape, or the error raised instead of it.
Shape(dims) == [err |-> "", dims |-> dims]
ShapeErr(e) == [err |-> e, dims |-> <<>>]

Tensor(dims, data) == [err |-> "", shape |-> dims, data |-> data]
Raised(e) == [err |-> e, shape |-> <<>>, data |-> <<>>]
NoTensor == [err |-> "unset", shape |-> <<>>, data |-> <<>>]

\* torch.zeros(1, *input_dim): a negative size is refused.
zeros(dims) ==
  IF \E i \in 1 .. Len(dims) : dims[i] < 0
  THEN ShapeErr("RuntimeError: negative dimension")
  ELSE Shape(dims)

\* ------------------------------------------------------------- layers
Conv2d(in, out, k, s, w) ==
  [type |-> "Conv2d", in |-> in, out |-> out, k |-> k, s |-> s, w |-> w]
ReLU == [type |-> "ReLU"]
Flatten == [type |-> "Flatten"]
Linear(in, out, w) == [type |-> "Linear", in |-> in, out |-> out, w |-> w]

\* One side of a valid (unpadded) convolution: floor((side - k) / s) + 1.
ConvOut(side, k, s) == ((side - k) \div s) + 1

\* A variant of Conv2dShape that applies the size formula without torch's check
\* that the kernel fits the input.
Conv2dShapeUnchecked(l, dims) ==
  IF Len(dims) \notin {3, 4}
  THEN ShapeErr("RuntimeError: expected 3D or 4D input to conv2d")
  ELSE LET d == IF Len(dims) = 3 THEN <<1>> \o dims ELSE dims
           o == <<d[1], l.out, ConvOut(d[3], l.k, l.s), ConvOut(d[4], l.k, l.s)>>
       IN IF d[2] # l.in
          THEN ShapeErr("RuntimeError: channels")
          ELSE Shape(IF Len(dims) = 3 THEN Tail(o) ELSE o)

\* Conv2d.forward on a tensor of shape dims.  A 4-D tensor is a batch
\* (N, C, H, W); a 3-D tensor is taken as one unbatched sample (C, H, W);
\* any other rank is refused.  C must be the layer's in_channels, and H and W
\* must not be smaller than the kernel.
Conv2dShape(l, dims) ==
  IF Len(dims) \notin {3, 4}
  THEN ShapeErr("RuntimeError: expected 3D or 4D input to conv2d")
  ELSE LET d == IF Len(dims) = 3 THEN <<1>> \o dims ELSE dims
           o == <<d[1], l.out, ConvOut(d[3], l.k, l.s), ConvOut(d[4], l.k, l.s)>>
       IN IF d[2] # l.in
          THEN ShapeErr("RuntimeError: channels")
          ELSE IF d[3] < l.k \/ d[4] < l.k
          THEN ShapeErr("RuntimeError: kernel size greater than input size")
          ELSE Shape(IF Len(dims) = 3 THEN Tail(o) ELSE o)

\* nn.Flatten(): start_dim = 1, end_dim = -1.
FlattenShape(dims) ==
  IF Len(dims) < 2 THEN Shape(dims)
  ELSE Shape(<<dims[1], Prod(Tail(dims))>>)

\* nn.Linear.forward: the last dimension must be in_features.
LinearShape(l, dims) ==
  IF Len(dims) = 0 \/ dims[Len(dims)] # l.in
  THEN ShapeErr("RuntimeError: mat1 and mat2 shapes cannot be multiplied")
  ELSE Shape([i \in 1 .. Len(dims) |-> IF i = Len(dims) THEN l.out ELSE dims[i]])

LayerShape(l, dims) ==
  CASE l.type = "Conv2d" -> Conv2dShape(l, dims)
    [] l.type = "ReLU" -> Shape(dims)
    [] l.type = "Flatten" -> FlattenShape(dims)
    [] l.type = "Linear" -> LinearShape(l, dims)

\* nn.Sequential.forward: the layers in order; the first error is raised.
RECURSIVE SequentialShape(_, _)
SequentialShape(layers, s) ==
  IF s.err # "" \/ layers = <<>> THEN s
  ELSE SequentialShape(Tail(layers), LayerShape(Head(layers), s.dims))

\* Output j (of m) of a stack whose last layer holds the parameter draw w, for
\* the sample x.
Unit(w, x, j, m) == w * ((x - 1) * m + j)

\* The row of values a stack yields for the sample x, m values wide.
StackRow(layers, x, m) ==
  [j \in 1 .. m |-> Rat(Unit(layers[Len(layers)].w, x, j, m), 1)]

\* A stack applied to a batch: its shape, and one row per sample.
SequentialForward(layers, dims, batch) ==
  LET s == SequentialShape(layers, Shape(dims)) IN
  IF s.err # "" THEN Raised(s.err)
  ELSE Tensor(s.dims,
              [i \in 1 .. Len(batch) |->
                 StackRow(layers, batch[i], s.dims[Len(s.dims)])])

\* ------------------------------------------------------------- state
VARIABLES
  pc,                \* the statement the constructor is at; "ready" once returned
  failedAt,          \* the statement that raised, when pc = "failed"
  error,             \* the exception the constructor raised
  seed,              \* the state of torch's random generator: the parameter draw
  kind,              \* the class being constructed
  attrs,             \* the attributes assigned to self so far
  input_dim,
  output_dim,
  conv,
  fc_input_dim,
  network,           \* DeepConvQNetwork only
  value_stream,      \* DuelingDeepConvQNetwork only
  advantage_stream,  \* DuelingDeepConvQNetwork only
  device,            \* DeepConvQNetwork only
  featureSizeCalls,  \* how many times feature_size has been entered
  state,             \* the argument of the last forward call
  qvals              \* what the last forward call returned, or raised

\* The network object: everything reachable from self.
net ==
  <<kind, attrs, input_dim, output_dim, conv, fc_input_dim, network,
    value_stream, advantage_stream, device, seed>>

vars == <<pc, failedAt, error, net, featureSizeCalls, state, qvals>>

Init ==
  /\ pc = "idle"
  /\ failedAt = ""
  /\ error = ""
  /\ seed \in Seeds
  /\ kind = ""
  /\ attrs = {}
  /\ input_dim = <<>>
  /\ output_dim = 0
  /\ conv = <<>>
  /\ fc_input_dim = 0
  /\ network = <<>>
  /\ value_stream = <<>>
  /\ advantage_stream = <<>>
  /\ device = ""
  /\ featureSizeCalls = 0
  /\ state = NoTensor
  /\ qvals = NoTensor

\* An exception leaves the constructor: no instance is returned.
Raise(e) ==
  /\ pc' = "failed"
  /\ failedAt' = pc
  /\ error' = e

\* ------------------------------------------------------------- constructor
\* __init__(self, input_dim, output_dim): the two attribute assignments.
init_dims ==
  /\ pc = "idle"
  /\ \E k \in Kinds, d \in InputDims, n \in OutDims :
       /\ kind' = k
       /\ input_dim' = d
       /\ output_dim' = n
  /\ attrs' = {"input_dim", "output_dim"}
  /\ pc' = "conv"
  /\ UNCHANGED <<failedAt, error, seed, conv, fc_input_dim, network,
                 value_stream, advantage_stream, device, featureSizeCalls,
                 state, qvals>>

\* A variant of conv_layers whose second stage repeats the first stage's stride.
conv_layers_stride4(c, w) ==
  <<Conv2d(c, 32, 8, 4, w), ReLU,
    Conv2d(32, 64, 4, 4, w), ReLU,
    Conv2d(64, 64, 3, 1, w), ReLU>>

\* The convolutional trunk, for c input channels.
conv_layers(c, w) ==
  <<Conv2d(c, 32, 8, 4, w), ReLU,
    Conv2d(32, 64, 4, 2, w), ReLU,
    Conv2d(64, 64, 3, 1, w), ReLU>>

\* self.conv = nn.Sequential(nn.Conv2d(input_dim[0], ...), ...).
\* input_dim[0] needs one component; a negative channel count cannot size the
\* weight tensor; a zero channel count is a zero-element weight, which a torch
\* build either initialises as a no-op or fails to (division by a zero fan-in).
init_conv ==
  /\ pc = "conv"
  /\ \/ /\ Len(input_dim) = 0
        /\ Raise("IndexError")
        /\ UNCHANGED <<conv, attrs>>
     \/ /\ Len(input_dim) > 0
        /\ input_dim[1] < 0
        /\ Raise("RuntimeError: negative dimension")
        /\ UNCHANGED <<conv, attrs>>
     \/ /\ Len(input_dim) > 0
        /\ input_dim[1] = 0
        /\ Raise("ZeroDivisionError")
        /\ UNCHANGED <<conv, attrs>>
     \/ /\ Len(input_dim) > 0
        /\ input_dim[1] >= 0
        /\ conv' = conv_layers(input_dim[1], seed)
        /\ attrs' = attrs \cup {"conv"}
        /\ pc' = "feature_size"
        /\ UNCHANGED <<failedAt, error>>
  /\ UNCHANGED <<seed, kind, input_dim, output_dim, fc_input_dim, network,
                 value_stream, advantage_stream, device, featureSizeCalls,
                 state, qvals>>

\* A variant of feature_size that counts one channel's positions only.
feature_size_one_channel ==
  LET z == zeros(<<1>> \o input_dim)
      f == SequentialShape(conv, z)
  IN IF f.err # "" THEN f ELSE Shape(<<1, Prod(Tail(Tail(f.dims)))>>)

\* feature_size(self): self.conv(zeros(1, *self.input_dim)).view(1, -1).size(1),
\* the number of elements of the trunk's output for one zero sample.
feature_size ==
  LET z == zeros(<<1>> \o input_dim)
      f == SequentialShape(conv, z)
  IN IF f.err # "" THEN f ELSE Shape(<<1, Prod(f.dims)>>)

\* self.fc_input_dim = self.feature_size()
init_feature_size ==
  /\ pc = "feature_size"
  /\ featureSizeCalls' = featureSizeCalls + 1
  /\ IF feature_size.err # ""
     THEN /\ Raise(feature_size.err)
          /\ UNCHANGED <<fc_input_dim, attrs>>
     ELSE /\ fc_input_dim' = feature_size.dims[2]
          /\ attrs' = attrs \cup {"fc_input_dim"}
          /\ pc' = "heads"
          /\ UNCHANGED <<failedAt, error>>
  /\ UNCHANGED <<seed, kind, input_dim, output_dim, conv, network,
                 value_stream, advantage_stream, device, state, qvals>>

\* A variant of q_head without the nn.Flatten() between trunk and head.
q_head_no_flatten(fc, n, w) ==
  <<Linear(fc, 512, w), ReLU, Linear(512, n, w)>>

\* What DeepConvQNetwork puts after self.conv in self.network.
q_head(fc, n, w) ==
  <<Flatten, Linear(fc, 512, w), ReLU, Linear(512, n, w)>>

\* self.network = nn.Sequential(self.conv, nn.Flatten(), nn.Linear(...), ...)
DeepConvQNetwork_init_network ==
  /\ pc = "heads"
  /\ kind = "DeepConvQNetwork"
  /\ network' = conv \o q_head(fc_input_dim, output_dim, seed)
  /\ attrs' = attrs \cup {"network"}
  /\ pc' = "to_device"
  /\ UNCHANGED <<failedAt, error, seed, kind, input_dim, output_dim, conv,
                 fc_input_dim, value_stream, advantage_stream, device,
                 featureSizeCalls, state, qvals>>

\* self.device = 'cuda' if torch.cuda.is_available() else 'cpu'; self.to(...)
DeepConvQNetwork_init_device ==
  /\ pc = "to_device"
  /\ \E cuda \in BOOLEAN : device' = IF cuda THEN "cuda" ELSE "cpu"
  /\ attrs' = attrs \cup {"device"}
  /\ pc' = "ready"
  /\ UNCHANGED <<failedAt, error, seed, kind, input_dim, output_dim, conv,
                 fc_input_dim, network, value_stream, advantage_stream,
                 featureSizeCalls, state, qvals>>

\* A variant of the advantage stream with a single output unit.
advantage_layers_one(fc, n, w) ==
  <<Linear(fc, 128, w), ReLU, Linear(128, 1, w)>>

value_layers(fc, w) ==
  <<Linear(fc, 128, w), ReLU, Linear(128, 1, w)>>

advantage_layers(fc, n, w) ==
  <<Linear(fc, 128, w), ReLU, Linear(128, n, w)>>

\* self.value_stream = ...; self.advantage_stream = ...
DuelingDeepConvQNetwork_init_streams ==
  /\ pc = "heads"
  /\ kind = "DuelingDeepConvQNetwork"
  /\ value_stream' = value_layers(fc_input_dim, seed)
  /\ advantage_stream' = advantage_layers(fc_input_dim, output_dim, seed)
  /\ attrs' = attrs \cup {"value_stream", "advantage_stream"}
  /\ pc' = "ready"
  /\ UNCHANGED <<failedAt, error, seed, kind, input_dim, output_dim, conv,
                 fc_input_dim, network, device, featureSizeCalls, state, qvals>>

\* ------------------------------------------------------------- forward
\* The shapes (C, H, W) forward is called with besides the constructed one: a
\* wrong channel count, a spatial size below the trunk's minimum, and two
\* larger heights.
OtherShapes ==
  LET c == input_dim[1]
      h == input_dim[2]
      w == input_dim[3]
  IN {<<c + 1, h, w>>, <<c, 10, 10>>, <<c, h + 4, w>>, <<c, h + 8, w>>}

\* The tensors forward is called with: every batch of the constructed shape,
\* one-sample batches of the other shapes, and one unbatched sample.
States ==
  {Tensor(<<Len(b)>> \o input_dim, b) : b \in Batches}
    \cup {Tensor(<<1>> \o s, <<x>>) : x \in Samples, s \in OtherShapes}
    \cup {Tensor(input_dim, <<x>>) : x \in Samples}

\* DeepConvQNetwork.forward's result: state.to(self.device) keeps shape and
\* values; qvals = self.network(state).
DeepConvQNetwork_qvals(t) == SequentialForward(network, t.shape, t.data)

\* A variant of DeepConvQNetwork.forward that keeps the width of the batch it
\* was last called with in fc_input_dim.
DeepConvQNetwork_forward_caching ==
  /\ pc = "ready"
  /\ kind = "DeepConvQNetwork"
  /\ \E t \in States :
       /\ state' = t
       /\ qvals' = DeepConvQNetwork_qvals(t)
       /\ fc_input_dim' = Prod(Tail(t.shape))
  /\ UNCHANGED <<pc, failedAt, error, seed, kind, attrs, input_dim, output_dim,
                 conv, network, value_stream, advantage_stream, device,
                 featureSizeCalls>>

\* A variant of DeepConvQNetwork.forward that reads the feature width again on
\* every call.
DeepConvQNetwork_forward_resizing ==
  /\ pc = "ready"
  /\ kind = "DeepConvQNetwork"
  /\ \E t \in States :
       /\ state' = t
       /\ qvals' = DeepConvQNetwork_qvals(t)
  /\ featureSizeCalls' = featureSizeCalls + 1
  /\ UNCHANGED <<pc, failedAt, error, net>>

\* DeepConvQNetwork.forward(self, state)
DeepConvQNetwork_forward ==
  /\ pc = "ready"
  /\ kind = "DeepConvQNetwork"
  /\ \E t \in States :
       /\ state' = t
       /\ qvals' = DeepConvQNetwork_qvals(t)
  /\ UNCHANGED <<pc, failedAt, error, net, featureSizeCalls>>

\* features.view(features.size(0), -1)
view_rows(dims) == <<dims[1], Prod(Tail(dims))>>

\* tensor.mean(): the sum of all the elements over their number.
mean(rows) ==
  LET all == Concat(rows)
      sum == RatSum(all)
  IN Rat(sum[1], sum[2] * Len(all))

\* The shape of a + b for two tensors of the same rank: sizes agree, or one
\* of the two is 1.
broadcast(a, b) ==
  IF Len(a) # Len(b)
       \/ \E i \in 1 .. Len(a) : a[i] # b[i] /\ a[i] # 1 /\ b[i] # 1
  THEN ShapeErr("RuntimeError: shapes cannot be broadcast")
  ELSE Shape([i \in 1 .. Len(a) |-> IF a[i] = 1 THEN b[i] ELSE a[i]])

\* Element a of a row, a row of width 1 being broadcast.
at(row, a) == IF Len(row) = 1 THEN row[1] ELSE row[a]

\* A variant of dueling_qvals that subtracts from each row its own mean.
dueling_qvals_row_mean(values, advantages) ==
  LET s == broadcast(values.shape, advantages.shape) IN
  IF s.err # "" THEN Raised(s.err)
  ELSE Tensor(s.dims,
         [i \in 1 .. s.dims[1] |->
            [a \in 1 .. s.dims[2] |->
               RatAdd(at(values.data[i], a),
                      RatSub(at(advantages.data[i], a),
                             mean(<<advantages.data[i]>>)))]])

\* qvals = values + (advantages - advantages.mean())
dueling_qvals(values, advantages) ==
  LET s == broadcast(values.shape, advantages.shape)
      m == mean(advantages.data)
  IN IF s.err # "" THEN Raised(s.err)
     ELSE Tensor(s.dims,
            [i \in 1 .. s.dims[1] |->
               [a \in 1 .. s.dims[2] |->
                  RatAdd(at(values.data[i], a),
                         RatSub(at(advantages.data[i], a), m))]])

\* DuelingDeepConvQNetwork.forward's result.
DuelingDeepConvQNetwork_qvals(t) ==
  LET features == SequentialShape(conv, Shape(t.shape)) IN
  IF features.err # "" THEN Raised(features.err)
  ELSE LET dims == view_rows(features.dims)
           values == SequentialForward(value_stream, dims, t.data)
           advantages == SequentialForward(advantage_stream, dims, t.data)
       IN IF values.err # "" THEN Raised(values.err)
          ELSE IF advantages.err # "" THEN Raised(advantages.err)
          ELSE dueling_qvals(values, advantages)

\* DuelingDeepConvQNetwork.forward(self, state)
DuelingDeepConvQNetwork_forward ==
  /\ pc = "ready"
  /\ kind = "DuelingDeepConvQNetwork"
  /\ \E t \in States :
       /\ state' = t
       /\ qvals' = DuelingDeepConvQNetwork_qvals(t)
  /\ UNCHANGED <<pc, failedAt, error, net, featureSizeCalls>>

\* ------------------------------------------------------------- specification
Next ==
  \/ init_dims
  \/ init_conv
  \/ init_feature_size
  \/ DeepConvQNetwork_init_network
  \/ DeepConvQNetwork_init_device
  \/ DuelingDeepConvQNetwork_init_streams
  \/ DeepConvQNetwork_forward
  \/ DuelingDeepConvQNetwork_forward

Spec == Init /\ [][Next]_vars

\* ------------------------------------------------------------- properties
Std == "DeepConvQNetwork"
Duel == "DuelingDeepConvQNetwork"

\* forward has been called at least once.
Called == state.err = ""

\* input_dim is a valid (c, h, w): three positive components.
ValidInputDim ==
  /\ Len(input_dim) = 3
  /\ \A i \in 1 .. 3 : input_dim[i] >= 1

\* The last forward call was given a batch of the constructed shape.
BatchOfInputDim ==
  /\ Called
  /\ Len(state.shape) = 4
  /\ state.shape[1] = Len(state.data)
  /\ Tail(state.shape) = input_dim

\* The three stages' output side, by the valid-convolution formula.
Stage1(s) == ((s - 8) \div 4) + 1
Stage2(s) == ((Stage1(s) - 4) \div 2) + 1
Stage3(s) == ((Stage2(s) - 3) \div 1) + 1

KernelError == "RuntimeError: kernel size greater than input size"

\* C1: on a DeepConvQNetwork constructed for a valid (c, h, w) and n, forward on
\* a batch of shape (b, c, h, w) returns a tensor of shape exactly (b, n), b rows
\* of n values: the trunk's flattened width per sample is the in-width of the
\* first Linear layer, and the last Linear layer emits n values.
C1_StandardForwardShape ==
  (pc = "ready" /\ kind = Std /\ ValidInputDim /\ BatchOfInputDim) =>
    /\ qvals.err = ""
    /\ qvals.shape = <<state.shape[1], output_dim>>
    /\ Len(qvals.data) = state.shape[1]
    /\ \A i \in 1 .. Len(qvals.data) : Len(qvals.data[i]) = output_dim
    /\ LET trunk == SequentialShape(conv, Shape(state.shape)) IN
         /\ trunk.err = ""
         /\ network[8].type = "Linear"
         /\ network[8].in = trunk.dims[2] * trunk.dims[3] * trunk.dims[4]
         /\ network[10].type = "Linear"
         /\ network[10].out = output_dim
         /\ Len(network) = 10

C1_Witness ==
  /\ pc = "ready" /\ kind = Std
  /\ input_dim = <<4, TypicalSide, TypicalSide>> /\ output_dim = 6
  /\ BatchOfInputDim
  /\ state.shape[1] = MaxBatch
  /\ qvals.shape = <<MaxBatch, 6>>

\* C2: on a DuelingDeepConvQNetwork constructed for a valid (c, h, w) and n,
\* forward on a batch of shape (b, c, h, w) returns a tensor of shape exactly
\* (b, n): the value stream yields (b, 1), the advantage stream (b, n), and
\* their broadcast combination (b, n).
C2_DuelingForwardShape ==
  (pc = "ready" /\ kind = Duel /\ ValidInputDim /\ BatchOfInputDim) =>
    /\ qvals.err = ""
    /\ qvals.shape = <<state.shape[1], output_dim>>
    /\ Len(qvals.data) = state.shape[1]
    /\ \A i \in 1 .. Len(qvals.data) : Len(qvals.data[i]) = output_dim
    /\ LET features == SequentialShape(conv, Shape(state.shape))
           dims == view_rows(features.dims)
       IN /\ features.err = ""
          /\ SequentialShape(value_stream, Shape(dims))
               = Shape(<<state.shape[1], 1>>)
          /\ SequentialShape(advantage_stream, Shape(dims))
               = Shape(<<state.shape[1], output_dim>>)

C2_Witness ==
  /\ pc = "ready" /\ kind = Duel
  /\ input_dim = <<4, TypicalSide, TypicalSide>> /\ output_dim = 6
  /\ BatchOfInputDim
  /\ state.shape[1] = MaxBatch
  /\ qvals.shape = <<MaxBatch, 6>>

\* The value and advantage tensors of the last DuelingDeepConvQNetwork.forward.
LastValues ==
  SequentialForward(value_stream,
                    view_rows(SequentialShape(conv, Shape(state.shape)).dims),
                    state.data)
LastAdvantages ==
  SequentialForward(advantage_stream,
                    view_rows(SequentialShape(conv, Shape(state.shape)).dims),
                    state.data)

\* The sum of the numerators of rows[i][a] over i in 1..b, a in 1..n (the
\* entries are whole numbers).
RECURSIVE Total(_, _, _)
Total(rows, k, n) ==
  IF k = 0 THEN 0
  ELSE rows[((k - 1) \div n) + 1][((k - 1) % n) + 1][1] + Total(rows, k - 1, n)

\* C3: whenever DuelingDeepConvQNetwork.forward returns, with A (b x n) the
\* advantage stream's output and V (b x 1) the value stream's, entry (i, a) of
\* the result is V[i] + A[i, a] - m, m the one mean of all b*n entries of A:
\* entry * (b*n) = (V[i] + A[i, a]) * (b*n) - sum of all entries of A.
C3_DuelingCombination ==
  (pc = "ready" /\ kind = Duel /\ Called /\ qvals.err = "") =>
    LET A == LastAdvantages.data
        V == LastValues.data
        b == Len(A)
        n == output_dim
        sumA == Total(A, b * n, n)
    IN /\ LastAdvantages.shape = <<b, n>>
       /\ LastValues.shape = <<b, 1>>
       /\ \A i \in 1 .. b : \A a \in 1 .. n :
            LET q == qvals.data[i][a] IN
              /\ q[2] > 0
              /\ q[1] * (b * n) = ((V[i][1][1] + A[i][a][1]) * (b * n) - sumA) * q[2]

\* The example: A = [[1,2,3],[4,5,6]], m = 7/2, row 0 is V[0] + [-5/2,-3/2,-1/2],
\* where a per-row mean (2) would give V[0] + [-1, 0, 1].
C3_Witness ==
  /\ pc = "ready" /\ kind = Duel /\ Called /\ qvals.err = ""
  /\ LastAdvantages.data = << <<Rat(1, 1), Rat(2, 1), Rat(3, 1)>>,
                              <<Rat(4, 1), Rat(5, 1), Rat(6, 1)>> >>
  /\ mean(LastAdvantages.data) = <<7, 2>>
  /\ qvals.data[1] = <<RatAdd(LastValues.data[1][1], <<-5, 2>>),
                       RatAdd(LastValues.data[1][1], <<-3, 2>>),
                       RatAdd(LastValues.data[1][1], <<-1, 2>>)>>
  /\ qvals.data[1] # [a \in 1 .. 3 |->
                        RatAdd(LastValues.data[1][1], Rat(a - 2, 1))]

\* forward of the constructed network on the one-sample batch <<x>> of the
\* shape of the last call's samples.
AloneQvals(x) ==
  LET single == Tensor(<<1>> \o Tail(state.shape), <<x>>) IN
  IF kind = Std THEN DeepConvQNetwork_qvals(single)
  ELSE DuelingDeepConvQNetwork_qvals(single)

\* C4: batch-size invariance, for both networks: the row forward returns for a
\* sample in a batch is the row it returns for that sample alone in a batch of
\* size 1.
C4_BatchSizeInvariance ==
  (pc = "ready" /\ ValidInputDim /\ Called /\ qvals.err = "" /\ Len(state.shape) = 4) =>
    \A i \in 1 .. Len(state.data) :
      /\ AloneQvals(state.data[i]).err = ""
      /\ AloneQvals(state.data[i]).data[1] = qvals.data[i]

\* C5: for either network, an input_dim (c, h, w), c >= 1, whose h or w is less
\* than the trunk needs makes the constructor raise in feature_size, its only
\* call: for h, w >= 0 the error is the convolution's kernel-size error; no
\* fully-connected layer is built, no instance is returned, no forward runs.
C5_TooSmallRaisesInConstructor ==
  (/\ pc \notin {"idle", "conv", "feature_size"}
   /\ Len(input_dim) = 3
   /\ input_dim[1] >= 1
   /\ \E i \in {2, 3} :
        \/ input_dim[i] < 8
        \/ Stage1(input_dim[i]) < 4
        \/ Stage2(input_dim[i]) < 3) =>
    /\ pc = "failed"
    /\ failedAt = "feature_size"
    /\ featureSizeCalls = 1
    /\ error # ""
    /\ (input_dim[2] >= 0 /\ input_dim[3] >= 0) => error = KernelError
    /\ "fc_input_dim" \notin attrs
    /\ network = <<>> /\ value_stream = <<>> /\ advantage_stream = <<>>
    /\ ~Called

C5_Witness ==
  /\ input_dim = <<4, 10, 10>>
  /\ kind = Duel
  /\ pc = "failed"
  /\ failedAt = "feature_size"
  /\ error = KernelError

C7_ForwardLeavesNetworkUnchanged ==
  [][pc = "ready" => (net' = net /\ pc' = "ready")]_vars

C7_Witness ==
  /\ pc = "ready"
  /\ Called
  /\ qvals.err \notin {"", "unset"}
  /\ kind = Std
  /\ network[8].in = fc_input_dim

\* C8: from the moment fc_input_dim is set, for input_dim = (c, h, w), it is
\* 64 * H3 * W3 by the three stages' formula, it is positive (3136 for
\* (4, 84, 84)), and it is the in-width of the first fully-connected layer of
\* every head built: the 512-unit layer, or the two streams' 128-unit layers.
C8_FeatureWidth ==
  ("fc_input_dim" \in attrs) =>
    /\ Len(input_dim) = 3
    /\ fc_input_dim = 64 * Stage3(input_dim[2]) * Stage3(input_dim[3])
    /\ fc_input_dim > 0
    /\ (input_dim = <<4, 84, 84>>) => fc_input_dim = 3136
    /\ ("network" \in attrs) =>
         /\ network[8] = Linear(fc_input_dim, 512, seed)
         /\ \A i \in 1 .. Len(network) :
              (network[i].type = "Linear" /\ i # 8) => network[i].in = 512
    /\ ("value_stream" \in attrs) =>
         value_stream[1] = Linear(fc_input_dim, 128, seed)
    /\ ("advantage_stream" \in attrs) =>
         advantage_stream[1] = Linear(fc_input_dim, 128, seed)
    /\ pc = "ready" => (kind = Std <=> "network" \in attrs)
    /\ pc = "ready" => (kind = Duel <=> "value_stream" \in attrs)
    /\ pc = "ready" => (kind = Duel <=> "advantage_stream" \in attrs)

C8_Witness ==
  /\ pc = "ready"
  /\ kind = Duel
  /\ input_dim = <<4, 84, 84>> /\ output_dim = 6
  /\ fc_input_dim = 3136
  /\ Called /\ qvals.err = ""

\* A fully-connected layer has been built.
HasLinear ==
  \/ \E i \in 1 .. Len(network) : network[i].type = "Linear"
  \/ value_stream # <<>>
  \/ advantage_stream # <<>>

\* C9: feature_size is entered at most once; it is entered with the trunk built
\* and no fully-connected layer built; every fully-connected layer is built
\* after it; and once the constructor has returned it has run exactly once and
\* no forward call enters it again.
C9_FeatureSizeOnce ==
  /\ [](featureSizeCalls <= 1)
  /\ [](HasLinear => featureSizeCalls = 1)
  /\ [](pc = "ready" => (featureSizeCalls = 1 /\ HasLinear))
  /\ [][featureSizeCalls' # featureSizeCalls =>
          /\ featureSizeCalls' = featureSizeCalls + 1
          /\ pc = "feature_size"
          /\ conv = conv_layers(input_dim[1], seed)
          /\ ~HasLinear]_vars
  /\ [][pc = "ready" => featureSizeCalls' = featureSizeCalls]_vars

C9_Witness ==
  /\ pc = "ready"
  /\ kind = Std
  /\ Called
  /\ featureSizeCalls = 1

\* C10: for input_dim = (c, h, w) with c >= 1, the constructor returns exactly
\* when h >= 36 and w >= 36; with h, w \in 0..35 some stage's input side is
\* smaller than its kernel (8, then 4, then 3) and the constructor raises the
\* kernel-size error: fc_input_dim is never set to a zero width.
C10_ConstructsIffSide36 ==
  (Len(input_dim) = 3 /\ input_dim[1] >= 1 /\ pc \notin {"idle", "conv"}) =>
    LET h == input_dim[2]
        w == input_dim[3]
        big == h >= 36 /\ w >= 36
    IN /\ pc = "failed" <=> (~big /\ pc # "feature_size")
       /\ pc \in {"heads", "to_device", "ready"} <=> (big /\ pc # "feature_size")
       /\ \A s \in {h, w} :
            s \in 0 .. 35 => (s < 8 \/ Stage1(s) < 4 \/ Stage2(s) < 3)
       /\ (pc = "failed" /\ h >= 0 /\ w >= 0) =>
            (error = KernelError /\ "fc_input_dim" \notin attrs)
       /\ ("fc_input_dim" \in attrs) => fc_input_dim > 0
       /\ (pc = "feature_size" /\ big) => feature_size.err = ""

C10_Witness ==
  /\ pc = "ready"
  /\ input_dim = <<1, 36, 36>>
  /\ fc_input_dim = 64

====
